---- MODULE Spec2Model ----
(***************************************************************************)
(* Metadata normalizer (js/shared.js): the text transforms normalizeTitle, *)
(* normalizeAbstract and normalizeKeywords, the blur handlers that apply   *)
(* them to form fields, and the tag-input bridge.                          *)
(*                                                                         *)
(* A string is a sequence of characters; a character is a one-element      *)
(* token such as "b", "<" or "\n".  "U+060C" is the Arabic comma and       *)
(* "U+0001" a C0 control character that is not whitespace.                 *)
(***************************************************************************)
EXTENDS Integers, Sequences, FiniteSets, TLC

VARIABLES
  pieces,   \* the chunks the argument of a call was built from
  arg,      \* the argument of a call to a normalizer
  fn,       \* the normalizer called, "none" before the call
  result    \* the value the call returned

VARIABLES
  el,         \* the form element under observation
  tinymce,    \* whether the global tinymce is defined
  editor,     \* the content of tinymce.get(el.id), NoEditor if there is none
  value,      \* el.value
  log,        \* what the handling of the latest event read, wrote, dispatched and threw
  cleanBlurs  \* blur events on el since the latest user edit, counted up to 2

VARIABLES
  inDom,      \* whether the tag-input container and its text input are in the document
  settled,    \* whether the scan after the settle delay has run
  listeners,  \* the blur listeners attachVueHandlers has put on the text input
  tagValue,   \* the text input's value
  timers,     \* the pending setTimeout callbacks, in the order they were set
  now,        \* the time on the timer clock, in milliseconds
  commits,    \* the values the input held at the Enter keydowns of the latest step
  replays,    \* the replays started so far
  calls,      \* what each processVueTagInput call of the latest step did
  fresh       \* whether the user has edited the input's text since the latest replay started

VARIABLES
  dom,        \* the nodes of the watched part of the document that are inserted
  attached,   \* for each text input, the blur listeners attachVueHandlers put on it
  scanned     \* whether the scan after the settle delay has run

VARIABLES
  registered, \* whether the plugin loader has called register
  hooks,      \* the hook names register added handleTemplateDisplay to
  displayed,  \* whether the template manager has displayed a template
  template,   \* the identifier of the latest displayed template
  scripts     \* the addJavaScript calls made for the latest displayed template

pureVars == <<pieces, arg, fn, result>>
fieldVars == <<el, tinymce, editor, value, log, cleanBlurs>>
tagVars ==
  <<inDom, settled, listeners, tagValue, timers, now, commits, replays, calls, fresh>>
watcherVars == <<dom, attached, scanned>>
hookVars == <<registered, hooks, displayed, template, scripts>>
vars == <<pureVars, fieldVars, tagVars, watcherVars, hookVars>>

(***************************************************************************)
(* Characters                                                              *)
(***************************************************************************)
ArabicComma == "U+060C"
SOH == "U+0001"

LowerOf ==
  [c \in {"A", "B", "P", "R"} |->
     CASE c = "A" -> "a" [] c = "B" -> "b" [] c = "P" -> "p" [] c = "R" -> "r"]

\* String.prototype.toLowerCase on one character
toLowerCaseChar(c) == IF c \in DOMAIN LowerOf THEN LowerOf[c] ELSE c

toLowerCase(s) == [k \in 1..Len(s) |-> toLowerCaseChar(s[k])]

\* ASCII letters of the alphabet (HTML tokenizer: "ASCII alpha")
IsAsciiAlpha(c) ==
  c \in {"a", "b", "g", "i", "l", "m", "o", "p", "r", "t", "u", "x",
         "A", "B", "P", "R"}

\* the regular expression class \s, which is also what trim() removes
IsWhitespace(c) == c \in {" ", "\t", "\n", "\r"}

\* the regular expression class [\r\n]
IsLineBreak(c) == c \in {"\r", "\n"}

\* any C0 control code
IsControl(c) == c \in {"\t", "\n", "\r", SOH}

(***************************************************************************)
(* Shared.stripHtmlTags: temp.innerHTML = html; return temp.textContent.   *)
(* The HTML fragment parser is modelled by its tokenizer states for the    *)
(* characters of the alphabet: data, tag open, end tag open, tag name and  *)
(* attributes (no quote characters exist, so a tag ends at the next ">"),  *)
(* bogus comment, and named character references.  No element whose        *)
(* content is raw text can be spelled by the inputs.                       *)
(***************************************************************************)
\* the named character references the inputs can spell; all three are also
\* recognised without the closing semicolon
NamedRefs ==
  { [name |-> <<"l", "t">>, char |-> "<"],
    [name |-> <<"g", "t">>, char |-> ">"],
    [name |-> <<"a", "m", "p">>, char |-> "&"] }

HasPrefixAt(s, i, lit) ==
  /\ i + Len(lit) - 1 <= Len(s)
  /\ \A k \in 1..Len(lit) : s[i + k - 1] = lit[k]

\* the reference that starts at the "&" at position i, or none
RefsAt(s, i) == {e \in NamedRefs : HasPrefixAt(s, i + 1, e.name)}

\* input stream preprocessing: CR LF and CR become LF
RECURSIVE NormalizeNewlines(_, _)
NormalizeNewlines(s, i) ==
  IF i > Len(s) THEN <<>>
  ELSE IF s[i] = "\r"
       THEN IF i < Len(s) /\ s[i + 1] = "\n"
            THEN <<"\n">> \o NormalizeNewlines(s, i + 2)
            ELSE <<"\n">> \o NormalizeNewlines(s, i + 1)
       ELSE <<s[i]>> \o NormalizeNewlines(s, i + 1)

\* the character tokens the tokenizer emits from position i in the given
\* state; tags and comments produce no text
RECURSIVE Tokenize(_, _, _)
Tokenize(s, i, mode) ==
  IF i > Len(s) THEN <<>>
  ELSE IF mode = "data"
  THEN IF s[i] = "<"
       THEN IF i = Len(s) THEN <<"<">>
            ELSE IF IsAsciiAlpha(s[i + 1]) THEN Tokenize(s, i + 2, "tag")
            ELSE IF s[i + 1] = "/"
                 THEN IF i + 1 = Len(s) THEN <<"<", "/">>
                      ELSE IF IsAsciiAlpha(s[i + 2]) THEN Tokenize(s, i + 3, "tag")
                      ELSE IF s[i + 2] = ">" THEN Tokenize(s, i + 3, "data")
                      ELSE Tokenize(s, i + 2, "comment")
            ELSE <<"<">> \o Tokenize(s, i + 1, "data")
       ELSE IF s[i] = "&"
       THEN IF RefsAt(s, i) = {} THEN <<"&">> \o Tokenize(s, i + 1, "data")
            ELSE LET e == CHOOSE r \in RefsAt(s, i) : TRUE
                     j == i + 1 + Len(e.name)
                 IN  <<e.char>> \o
                     Tokenize(s, IF j <= Len(s) /\ s[j] = ";" THEN j + 1 ELSE j, "data")
       ELSE <<s[i]>> \o Tokenize(s, i + 1, "data")
  ELSE \* "tag" and "comment": skip to the closing ">"
       IF s[i] = ">" THEN Tokenize(s, i + 1, "data")
       ELSE Tokenize(s, i + 1, mode)

\* a stripper that removes tags and leaves character references undecoded
RECURSIVE TagsOnlyFrom(_, _, _)
TagsOnlyFrom(s, i, inTag) ==
  IF i > Len(s) THEN <<>>
  ELSE IF inTag THEN TagsOnlyFrom(s, i + 1, s[i] # ">")
  ELSE IF s[i] = "<" /\ i < Len(s) /\ (IsAsciiAlpha(s[i + 1]) \/ s[i + 1] = "/")
       THEN TagsOnlyFrom(s, i + 1, TRUE)
       ELSE <<s[i]>> \o TagsOnlyFrom(s, i + 1, FALSE)

stripHtmlTags_tagsOnly(html) == TagsOnlyFrom(html, 1, FALSE)

\* temp.innerHTML = html; temp.textContent
stripHtmlTags(html) ==
  IF html = <<>> THEN <<>>
  ELSE CHOOSE textContent \in
         { Tokenize(stream, 1, "data") : stream \in {NormalizeNewlines(html, 1)} } : TRUE

(***************************************************************************)
(* Regular expression helpers                                              *)
(***************************************************************************)
\* membership in a regular expression character class
InClass(cls, c) ==
  IF cls = "linebreak" THEN IsLineBreak(c) ELSE IsWhitespace(c)

\* s.replace(/C+/g, " ") for a character class C
RECURSIVE ReplaceRuns(_, _, _)
ReplaceRuns(s, i, cls) ==
  IF i > Len(s) THEN <<>>
  ELSE IF InClass(cls, s[i])
       THEN IF i > 1 /\ InClass(cls, s[i - 1])
            THEN ReplaceRuns(s, i + 1, cls)
            ELSE <<" ">> \o ReplaceRuns(s, i + 1, cls)
       ELSE <<s[i]>> \o ReplaceRuns(s, i + 1, cls)

\* String.prototype.trim
RECURSIVE trimStart(_)
trimStart(s) ==
  IF s # <<>> /\ IsWhitespace(Head(s)) THEN trimStart(Tail(s)) ELSE s

RECURSIVE trimEnd(_)
trimEnd(s) ==
  IF s # <<>> /\ IsWhitespace(s[Len(s)])
  THEN trimEnd(SubSeq(s, 1, Len(s) - 1)) ELSE s

trim(s) == trimEnd(trimStart(s))

\* case-insensitive literal match (the i flag); lit is in lower case
LitAt(s, i, lit) ==
  /\ i + Len(lit) - 1 <= Len(s)
  /\ \A k \in 1..Len(lit) : toLowerCaseChar(s[i + k - 1]) = lit[k]

\* \s* from position i: the first position that is not whitespace
RECURSIVE SkipWs(_, _)
SkipWs(s, i) ==
  IF i <= Len(s) /\ IsWhitespace(s[i]) THEN SkipWs(s, i + 1) ELSE i

\* [^>]*> from position i: the position after the first ">", 0 if none
RECURSIVE ToGt(_, _)
ToGt(s, i) ==
  IF i > Len(s) THEN 0
  ELSE IF s[i] = ">" THEN i + 1 ELSE ToGt(s, i + 1)

\* <\/?NAME[^>]*> at position i, for each NAME of names
TagAt(s, i, names) ==
  LET j == IF LitAt(s, i, <<"<", "/">>) THEN i + 2 ELSE i + 1
      hit == {n \in names : LitAt(s, j, n)}
  IN  IF LitAt(s, i, <<"<">>) /\ hit # {}
      THEN ToGt(s, j + Len(CHOOSE n \in hit : TRUE)) ELSE 0

\* <\/NAME>\s*<NAME[^>]*> at position i
PairAt(s, i, name) ==
  LET close == <<"<", "/">> \o name \o <<">">>
      j == SkipWs(s, i + Len(close))
  IN  IF LitAt(s, i, close) /\ LitAt(s, j, <<"<">> \o name)
      THEN ToGt(s, j + 1 + Len(name)) ELSE 0

\* <br\s*\/?> at position i
BrAt(s, i) ==
  LET j == SkipWs(s, i + 3)
      k == IF j <= Len(s) /\ s[j] = "/" THEN j + 1 ELSE j
  IN  IF LitAt(s, i, <<"<", "b", "r">>) /\ k <= Len(s) /\ s[k] = ">"
      THEN k + 1 ELSE 0

\* the position after the match of pattern pat at position i, 0 if none
MatchEnd(pat, s, i) ==
  CASE pat = "p-pair" -> PairAt(s, i, <<"p">>)
    [] pat = "p" -> TagAt(s, i, {<<"p">>})
    [] pat = "li-pair" -> PairAt(s, i, <<"l", "i">>)
    [] pat = "list" -> TagAt(s, i, {<<"u", "l">>, <<"o", "l">>})
    [] pat = "li" -> TagAt(s, i, {<<"l", "i">>})
    [] pat = "br" -> BrAt(s, i)

\* s.replace(/pat/gi, " ") from position i
RECURSIVE ReplaceAll(_, _, _)
ReplaceAll(pat, s, i) ==
  IF i > Len(s) THEN <<>>
  ELSE LET e == MatchEnd(pat, s, i)
       IN  IF e # 0 THEN <<" ">> \o ReplaceAll(pat, s, e)
           ELSE <<s[i]>> \o ReplaceAll(pat, s, i + 1)

(***************************************************************************)
(* normalizeTitle, normalizeAbstract                                       *)
(***************************************************************************)
\* normalizeTitle without step 4
normalizeTitle_noTrim(input) ==
  IF input = <<>> THEN <<>>
  ELSE ReplaceRuns(ReplaceRuns(stripHtmlTags(input), 1, "linebreak"), 1, "whitespace")

\* each step works on the value the step before it produced
normalizeTitle(input) ==
  IF input = <<>> THEN <<>>
  ELSE CHOOSE normalized \in
         { trim(step3) :
             step3 \in { ReplaceRuns(step2, 1, "whitespace") :
               step2 \in { ReplaceRuns(step1, 1, "linebreak") :
                 step1 \in {stripHtmlTags(input)} } } } : TRUE

\* steps 1 to 3: block-level markup becomes a space
BlockMarkupToSpace(input) ==
  CHOOSE normalized \in
    { ReplaceAll("br", e, 1) :
        e \in { ReplaceAll("li", d, 1) :
          d \in { ReplaceAll("list", c, 1) :
            c \in { ReplaceAll("li-pair", b, 1) :
              b \in { ReplaceAll("p", a, 1) :
                a \in {ReplaceAll("p-pair", input, 1)} } } } } } : TRUE

normalizeAbstract(input) ==
  IF input = <<>> THEN <<>>
  ELSE CHOOSE normalized \in
         { trim(step6) :
             step6 \in { ReplaceRuns(step5, 1, "whitespace") :
               step5 \in { ReplaceRuns(step4, 1, "linebreak") :
                 step4 \in { stripHtmlTags(step3) :
                   step3 \in {BlockMarkupToSpace(input)} } } } } : TRUE

(***************************************************************************)
(* normalizeKeywords                                                       *)
(***************************************************************************)
\* CONFIG.SEPARATORS
SEPARATORS == {ArabicComma, ",", ";", "\n", "\t"}

\* steps 1 and 2 without the replacement of tabs
SeparatorsToComma_noTab(input) ==
  [k \in 1..Len(input) |->
     IF input[k] \in {ArabicComma, ";", "\n"} THEN "," ELSE input[k]]

\* steps 1 and 2: the four replace calls
SeparatorsToComma(input) ==
  [k \in 1..Len(input) |->
     IF input[k] \in {ArabicComma, ";", "\n", "\t"} THEN "," ELSE input[k]]

\* String.prototype.split(","): the pieces of s from position i on, cur
\* being the piece under construction
RECURSIVE split(_, _, _)
split(s, i, cur) ==
  IF i > Len(s) THEN <<cur>>
  ELSE IF s[i] = "," THEN <<cur>> \o split(s, i + 1, <<>>)
       ELSE split(s, i + 1, Append(cur, s[i]))

\* step 4 without the trim: filter(length > 0) alone
RECURSIVE TrimAndFilter_noTrim(_)
TrimAndFilter_noTrim(kws) ==
  IF kws = <<>> THEN <<>>
  ELSE IF Len(Head(kws)) > 0 THEN <<Head(kws)>> \o TrimAndFilter_noTrim(Tail(kws))
       ELSE TrimAndFilter_noTrim(Tail(kws))

\* step 4 without the filter: map(trim) alone
RECURSIVE TrimAndFilter_noFilter(_)
TrimAndFilter_noFilter(kws) ==
  IF kws = <<>> THEN <<>>
  ELSE <<trim(Head(kws))>> \o TrimAndFilter_noFilter(Tail(kws))

\* step 4: map(trim), filter(length > 0)
RECURSIVE TrimAndFilter(_)
TrimAndFilter(kws) ==
  IF kws = <<>> THEN <<>>
  ELSE LET kw == trim(Head(kws))
       IN  IF Len(kw) > 0 THEN <<kw>> \o TrimAndFilter(Tail(kws))
           ELSE TrimAndFilter(Tail(kws))

\* step 5 with the keyword itself as the key of the seen map
RECURSIVE Unique_caseSensitive(_, _)
Unique_caseSensitive(kws, seen) ==
  IF kws = <<>> THEN <<>>
  ELSE IF Head(kws) \notin seen
       THEN <<Head(kws)>> \o Unique_caseSensitive(Tail(kws), seen \cup {Head(kws)})
       ELSE Unique_caseSensitive(Tail(kws), seen)

\* step 5: the forEach over keywords with the seen map
RECURSIVE Unique(_, _)
Unique(kws, seen) ==
  IF kws = <<>> THEN <<>>
  ELSE LET lower == toLowerCase(Head(kws))
       IN  IF lower \notin seen
           THEN <<Head(kws)>> \o Unique(Tail(kws), seen \cup {lower})
           ELSE Unique(Tail(kws), seen)

normalizeKeywords(input) ==
  IF input = <<>> THEN <<>>
  ELSE CHOOSE unique \in
         { Unique(keywords, {}) :
             keywords \in { TrimAndFilter(pieces3) :
               pieces3 \in { split(normalized, 1, <<>>) :
                 normalized \in {SeparatorsToComma(input)} } } } : TRUE

\* Array.prototype.join(sep)
RECURSIVE join(_, _)
join(list, sep) ==
  IF list = <<>> THEN <<>>
  ELSE IF Len(list) = 1 THEN Head(list)
       ELSE Head(list) \o sep \o join(Tail(list), sep)

\* String.prototype.includes for a single character
includes(s, c) == \E k \in 1..Len(s) : s[k] = c

(***************************************************************************)
(* Form elements and selectors.  An attribute value is the sequence of the *)
(* words it is spelled from, and [attr*="sub"] holds when one of its words *)
(* contains sub.                                                           *)
(***************************************************************************)
NoEditor == "no editor"

WordContains(word, sub) ==
  \/ word = sub
  \/ word = "subtitle" /\ sub = "title"
  \/ word = "subtitle-" /\ sub \in {"title-", "subtitle", "title"}
  \/ word = "title-" /\ sub = "title"
  \/ word = "prefix-" /\ sub = "prefix"

AttrContains(attrValue, sub) ==
  \E k \in 1..Len(attrValue) : WordContains(attrValue[k], sub)

\* the document node, which can be the target of a blur event and is not an
\* Element
Document == [tag |-> "#document", id |-> <<>>, name |-> <<>>, classes |-> {}]

Elements ==
  { [tag |-> "input", id |-> <<"title-", "en">>, name |-> <<"title">>, classes |-> {}],
    [tag |-> "input", id |-> <<>>, name |-> <<"subtitle">>, classes |-> {}],
    [tag |-> "textarea", id |-> <<"abstract">>, name |-> <<"abstract">>,
     classes |-> {"richContent"}],
    [tag |-> "textarea", id |-> <<>>, name |-> <<"abstract">>, classes |-> {}],
    [tag |-> "input", id |-> <<>>, name |-> <<"keywords">>, classes |-> {}],
    [tag |-> "input", id |-> <<>>, name |-> <<"keywords", "title">>, classes |-> {}],
    [tag |-> "textarea", id |-> <<"kw">>, name |-> <<"abstract", "keywords">>,
     classes |-> {}],
    [tag |-> "input", id |-> <<"other">>, name |-> <<"other">>, classes |-> {}],
    Document }

\* CONFIG.TITLE_SELECTORS
TITLE_SELECTORS ==
  { [tag |-> "input", attr |-> "id", sub |-> "title-"],
    [tag |-> "input", attr |-> "name", sub |-> "title"],
    [tag |-> "input", attr |-> "id", sub |-> "prefix-"],
    [tag |-> "input", attr |-> "name", sub |-> "prefix"],
    [tag |-> "input", attr |-> "id", sub |-> "subtitle-"],
    [tag |-> "input", attr |-> "name", sub |-> "subtitle"] }

\* CONFIG.ABSTRACT_SELECTORS
ABSTRACT_SELECTORS ==
  { [tag |-> "textarea", attr |-> "id", sub |-> "abstract"],
    [tag |-> "textarea", attr |-> "name", sub |-> "abstract"],
    [tag |-> "textarea", attr |-> "class", sub |-> "richContent"] }

\* CONFIG.SELECTORS.legacy
LEGACY_SELECTORS ==
  { [tag |-> "input", attr |-> "name", sub |-> "keywords"],
    [tag |-> "textarea", attr |-> "name", sub |-> "keywords"] }

\* Element.matches for one selector
matches(element, selector) ==
  /\ element.tag = selector.tag
  /\ CASE selector.attr = "id" -> AttrContains(element.id, selector.sub)
       [] selector.attr = "name" -> AttrContains(element.name, selector.sub)
       [] selector.attr = "class" -> selector.sub \in element.classes

\* whether the node has a matches method: an Element has, the document not
HasMatches(node) == node.tag # "#document"

\* whether Element.matches accepts the selector; it throws a SyntaxError for
\* one it cannot compile
Compiles(selector) == selector.attr \in {"id", "name", "class"}

matchesAnySelector(element, selectors) ==
  IF ~HasMatches(element) THEN FALSE
  ELSE \E selector \in selectors :
         IF Compiles(selector) THEN matches(element, selector) ELSE FALSE

(***************************************************************************)
(* The field a handler works on: f = [el, tinymce, editor, value, log].    *)
(* The editor keeps the content it is given: setContent(c) followed by     *)
(* getContent() gives c.                                                   *)
(***************************************************************************)
isTinyMCEActive(f) ==
  IF ~f.tinymce THEN FALSE
  ELSE IF f.el.id = <<>> THEN FALSE
  ELSE f.editor # NoEditor

getElementContent(f) ==
  IF isTinyMCEActive(f) THEN f.editor ELSE f.value

Logged(f, op, by, content) ==
  [f EXCEPT !.log = Append(@, [op |-> op, by |-> by, content |-> content])]

\* setElementContent that assigns element.value whether or not an editor is
\* active
setElementContent_rawOnly(f, content, by) ==
  Logged(Logged([f EXCEPT !.value = content], "value", by, content),
         "change", by, content)

\* setElementContent without the change event
setElementContent_noChange(f, content, by) ==
  IF isTinyMCEActive(f)
  THEN Logged([f EXCEPT !.editor = content], "setContent", by, content)
  ELSE Logged([f EXCEPT !.value = content], "value", by, content)

\* by names the handler that calls
setElementContent(f, content, by) ==
  LET written == IF isTinyMCEActive(f)
                 THEN Logged([f EXCEPT !.editor = content], "setContent", by, content)
                 ELSE Logged([f EXCEPT !.value = content], "value", by, content)
  IN  Logged(written, "change", by, content)

\* processTitleField without the comparison of normalized and rawValue
processTitleField_alwaysWrites(f) ==
  LET rawValue == getElementContent(f)
      g == Logged(f, "read", "title", rawValue)
  IN  IF rawValue = <<>> THEN g
      ELSE setElementContent(g, normalizeTitle(rawValue), "title")

processTitleField(f) ==
  LET rawValue == getElementContent(f)
      g == Logged(f, "read", "title", rawValue)
  IN  IF rawValue = <<>> THEN g
      ELSE LET normalized == normalizeTitle(rawValue)
           IN  IF normalized # rawValue
               THEN setElementContent(g, normalized, "title")
               ELSE g

processAbstractField(f) ==
  LET rawValue == getElementContent(f)
      g == Logged(f, "read", "abstract", rawValue)
  IN  IF rawValue = <<>> THEN g
      ELSE LET normalized == normalizeAbstract(rawValue)
           IN  IF normalized # rawValue
               THEN setElementContent(g, normalized, "abstract")
               ELSE g

processLegacyField(f) ==
  LET rawValue == f.value
      g == Logged(f, "read", "legacy", rawValue)
  IN  IF rawValue = <<>> THEN g
      ELSE LET keywords == normalizeKeywords(rawValue)
               normalizedValue == join(keywords, <<",", " ">>)
           IN  IF normalizedValue # rawValue
               THEN Logged(Logged([g EXCEPT !.value = normalizedValue],
                                  "value", "legacy", normalizedValue),
                           "change", "legacy", normalizedValue)
               ELSE g

\* the three capture-phase blur listeners on document, in the order the
\* file registers them
titleListener(f) ==
  IF matchesAnySelector(f.el, TITLE_SELECTORS) THEN processTitleField(f) ELSE f

abstractListener(f) ==
  IF matchesAnySelector(f.el, ABSTRACT_SELECTORS) THEN processAbstractField(f) ELSE f

\* target.matches(CONFIG.SELECTORS.legacy), called without a check that the
\* target has the method: a TypeError leaves the listener
legacyListener(f) ==
  IF ~HasMatches(f.el) THEN Logged(f, "throw", "legacy", <<>>)
  ELSE IF \E selector \in LEGACY_SELECTORS : matches(f.el, selector)
       THEN processLegacyField(f)
       ELSE f

\* the blur handler handleTinyMCE registers on an added editor
editorBlurListener(f) ==
  IF matchesAnySelector(f.el, ABSTRACT_SELECTORS) THEN processAbstractField(f) ELSE f

(***************************************************************************)
(* Events on a field                                                       *)
(***************************************************************************)
MaxFieldLen == 5

\* the longest value a textarea holds when its editor is added
MaxLateInitLen == 1

FieldChunks ==
  { <<"b">>, <<" ">>, <<",">>, <<"<", "p", ">">>, <<"&", "l", "t", ";">> }

Field == [el |-> el, tinymce |-> tinymce, editor |-> editor, value |-> value,
          log |-> <<>>]

Assign(f) ==
  /\ editor' = f.editor
  /\ value' = f.value
  /\ log' = f.log

\* the user types or pastes a chunk at the end of the field's content
UserType ==
  \E chunk \in FieldChunks :
    /\ el # Document
    /\ Len(getElementContent(Field)) + Len(chunk) <= MaxFieldLen
    /\ IF isTinyMCEActive(Field)
       THEN editor' = editor \o chunk /\ value' = value
       ELSE value' = value \o chunk /\ editor' = editor
    /\ log' = <<>>
    /\ cleanBlurs' = 0
    /\ UNCHANGED <<el, tinymce, pureVars, tagVars, watcherVars, hookVars>>

\* the user empties the field
UserClear ==
  /\ getElementContent(Field) # <<>>
  /\ IF isTinyMCEActive(Field)
     THEN editor' = <<>> /\ value' = value
     ELSE value' = <<>> /\ editor' = editor
  /\ log' = <<>>
  /\ cleanBlurs' = 0
  /\ UNCHANGED <<el, tinymce, pureVars, tagVars, watcherVars, hookVars>>

\* tinymce adds an editor for the textarea; it starts with the textarea's
\* value
AddEditor ==
  /\ tinymce
  /\ el.tag = "textarea" /\ el.id # <<>>
  /\ editor = NoEditor
  /\ Len(value) <= MaxLateInitLen
  /\ editor' = value
  /\ log' = <<>>
  /\ UNCHANGED <<el, tinymce, value, cleanBlurs, pureVars, tagVars, watcherVars, hookVars>>

\* a blur event with target el reaches the document listeners
DocumentBlur ==
  /\ \E f1 \in {titleListener(Field)} :
       \E f2 \in {abstractListener(f1)} :
         \E f3 \in {legacyListener(f2)} : Assign(f3)
  /\ cleanBlurs' = IF cleanBlurs < 2 THEN cleanBlurs + 1 ELSE 2
  /\ UNCHANGED <<el, tinymce, pureVars, tagVars, watcherVars, hookVars>>

\* the editor of el loses focus
EditorBlur ==
  /\ isTinyMCEActive(Field)
  /\ \E f1 \in {editorBlurListener(Field)} : Assign(f1)
  /\ cleanBlurs' = IF cleanBlurs < 2 THEN cleanBlurs + 1 ELSE 2
  /\ UNCHANGED <<el, tinymce, pureVars, tagVars, watcherVars, hookVars>>

TagIdle ==
  /\ inDom = FALSE
  /\ settled = FALSE
  /\ listeners = 0
  /\ tagValue = <<>>
  /\ timers = <<>>
  /\ now = 0
  /\ commits = <<>>
  /\ replays = 0
  /\ calls = <<>>
  /\ fresh = FALSE

WatcherIdle ==
  /\ dom = {}
  /\ attached = <<>>
  /\ scanned = FALSE

HookIdle ==
  /\ registered = FALSE
  /\ hooks = {}
  /\ displayed = FALSE
  /\ template = <<>>
  /\ scripts = <<>>

PureIdle ==
  /\ pieces = <<>>
  /\ arg = <<>>
  /\ fn = "none"
  /\ result = <<>>

InitFields ==
  /\ el \in Elements
  /\ tinymce \in BOOLEAN
  /\ editor = NoEditor
  /\ value = <<>>
  /\ log = <<>>
  /\ cleanBlurs = 0
  /\ PureIdle
  /\ TagIdle
  /\ WatcherIdle
  /\ HookIdle

NextFields == UserType \/ UserClear \/ AddEditor \/ DocumentBlur \/ EditorBlur

SpecFields == InitFields /\ [][NextFields]_vars


(***************************************************************************)
(* Inputs: every concatenation of at most MaxPieces chunks of one family.  *)
(***************************************************************************)
MaxPieces == 3
MaxKeywordPieces == 5

MarkupChunks ==
  { <<"b">>, <<" ">>, <<"<">>, <<">">>,
    <<"<", "b", ">">>, <<"<", "/", "b", ">">>,
    <<"&", "l", "t", ";">>, <<"&", "g", "t", ";">>,
    <<"&", "a", "m", "p", ";">> }

\* opening and closing p, li, ul, ol tags and br tags, in either letter
\* case, with and without attributes
BlockTags ==
  { <<"<", "p", ">">>, <<"<", "/", "P", ">">>, <<"<", "p", " ", "x", ">">>,
    <<"<", "l", "i", ">">>, <<"<", "/", "l", "i", ">">>,
    <<"<", "u", "l", ">">>, <<"<", "/", "o", "l", ">">>,
    <<"<", "b", "r", ">">>, <<"<", "B", "R", " ", "/", ">">>,
    <<"<", "b", "r", " ", "x", ">">> }

BlockChunks == { <<"b">>, <<" ">> } \cup BlockTags

SpaceChunks ==
  { <<"b">>, <<" ">>, <<"\n">>, <<"\r">>, <<"\t">>, <<SOH>>,
    <<"<", "b", ">">> }

KeywordChunks ==
  { <<"a">>, <<"A">>, <<"b">>, <<" ">> } \cup {<<c>> : c \in SEPARATORS}

SeqsUpTo(S, n) == UNION {[1..k -> S] : k \in 0..n}

RECURSIVE Flatten(_)
Flatten(ps) == IF ps = <<>> THEN <<>> ELSE Head(ps) \o Flatten(Tail(ps))

HtmlPieces ==
  SeqsUpTo(MarkupChunks, MaxPieces) \cup SeqsUpTo(BlockChunks, MaxPieces)
    \cup SeqsUpTo(SpaceChunks, MaxPieces)

KeywordPieces == SeqsUpTo(KeywordChunks, MaxKeywordPieces)

(***************************************************************************)
(* The pure functions, each applied to an input                            *)
(***************************************************************************)
CallNormalizeTitle ==
  /\ fn = "none"
  /\ fn' = "normalizeTitle"
  /\ result' = normalizeTitle(arg)
  /\ UNCHANGED <<pieces, arg, fieldVars, tagVars, watcherVars, hookVars>>

CallNormalizeAbstract ==
  /\ fn = "none"
  /\ fn' = "normalizeAbstract"
  /\ result' = normalizeAbstract(arg)
  /\ UNCHANGED <<pieces, arg, fieldVars, tagVars, watcherVars, hookVars>>

CallNormalizeKeywords ==
  /\ fn = "none"
  /\ fn' = "normalizeKeywords"
  /\ result' = normalizeKeywords(arg)
  /\ UNCHANGED <<pieces, arg, fieldVars, tagVars, watcherVars, hookVars>>

FieldsIdle ==
  /\ el = [tag |-> "input", id |-> <<>>, name |-> <<>>, classes |-> {}]
  /\ tinymce = FALSE
  /\ editor = NoEditor
  /\ value = <<>>
  /\ log = <<>>
  /\ cleanBlurs = 0

InitText ==
  /\ pieces \in HtmlPieces
  /\ arg = Flatten(pieces)
  /\ fn = "none"
  /\ result = <<>>
  /\ FieldsIdle
  /\ TagIdle
  /\ WatcherIdle
  /\ HookIdle

NextText == CallNormalizeTitle \/ CallNormalizeAbstract

SpecText == InitText /\ [][NextText]_vars

InitKeywords ==
  /\ pieces \in KeywordPieces
  /\ arg = Flatten(pieces)
  /\ fn = "none"
  /\ result = <<>>
  /\ FieldsIdle
  /\ TagIdle
  /\ WatcherIdle
  /\ HookIdle

NextKeywords == CallNormalizeKeywords

SpecKeywords == InitKeywords /\ [][NextKeywords]_vars

(***************************************************************************)
(* Claims about the pure functions                                         *)
(***************************************************************************)
\* C1: normalizeTitle(normalizeTitle(s)) = normalizeTitle(s) and
\* normalizeAbstract(normalizeAbstract(s)) = normalizeAbstract(s) for every
\* input s, entity references and markup included.
C1_Idempotent ==
  /\ fn = "normalizeTitle" => normalizeTitle(result) = result
  /\ fn = "normalizeAbstract" => normalizeAbstract(result) = result

\* the trimmed, non-empty stretches of s between separator characters, in
\* input order
SeparatorPositions(s) == {k \in 1..Len(s) : s[k] \in SEPARATORS}

Boundaries(s) == {0, Len(s) + 1} \cup SeparatorPositions(s)

NextBoundary(s, a) == CHOOSE b \in Boundaries(s) :
  /\ b > a
  /\ \A c \in Boundaries(s) : c > a => b <= c

RECURSIVE StretchesFrom(_, _)
StretchesFrom(s, a) ==
  IF a > Len(s) THEN <<>>
  ELSE LET b == NextBoundary(s, a)
           w == trim(SubSeq(s, a + 1, b - 1))
       IN  (IF w = <<>> THEN <<>> ELSE <<w>>) \o StretchesFrom(s, b)

SameIgnoringCase(v, w) == toLowerCase(v) = toLowerCase(w)

\* the entries of list that no earlier entry equals ignoring case
RECURSIVE FirstOccurrences(_, _)
FirstOccurrences(list, k) ==
  IF k > Len(list) THEN <<>>
  ELSE (IF \E j \in 1..(k - 1) : SameIgnoringCase(list[j], list[k])
        THEN <<>> ELSE <<list[k]>>) \o FirstOccurrences(list, k + 1)

\* C4: the list normalizeKeywords returns has no two entries equal ignoring
\* case; each entry is, in its original casing, the earliest piece of the
\* input in its case-insensitive class; entries are in first-occurrence order.
C4_DedupFirstOccurrence ==
  fn = "normalizeKeywords" =>
    /\ \A i, j \in 1..Len(result) :
         i # j => ~SameIgnoringCase(result[i], result[j])
    /\ result = FirstOccurrences(StretchesFrom(arg, 0), 1)

\* two pieces that differ in case only, around a third keyword
C4_Witness ==
  /\ fn = "normalizeKeywords"
  /\ LET ps == StretchesFrom(arg, 0)
     IN  \E i, j \in 1..Len(ps) :
           i < j /\ ps[i] # ps[j] /\ SameIgnoringCase(ps[i], ps[j])
  /\ Len(result) >= 2

\* C5: replacing any separator occurrence of the input by any other of the
\* five separators does not change what normalizeKeywords returns.
C5_SeparatorsInterchangeable ==
  fn = "normalizeKeywords" =>
    \A k \in SeparatorPositions(arg) : \A c \in SEPARATORS :
      normalizeKeywords([arg EXCEPT ![k] = c]) = result

\* an input that mixes the Arabic comma with another separator between
\* keywords
C5_Witness ==
  /\ fn = "normalizeKeywords"
  /\ \E k, m \in SeparatorPositions(arg) :
       arg[k] = ArabicComma /\ arg[m] \in {";", "\t", "\n"}
  /\ Len(result) >= 2

\* the positions of s that hold no whitespace, in increasing order
RECURSIVE NonSpacePositions(_, _)
NonSpacePositions(s, k) ==
  IF k > Len(s) THEN <<>>
  ELSE (IF IsWhitespace(s[k]) THEN <<>> ELSE <<k>>) \o NonSpacePositions(s, k + 1)

IsTextRun(chunk) == chunk = <<"b">>

\* the positions of pieces that hold a text run, in increasing order
RECURSIVE TextRunPositions(_, _)
TextRunPositions(ps, k) ==
  IF k > Len(ps) THEN <<>>
  ELSE (IF IsTextRun(ps[k]) THEN <<k>> ELSE <<>>) \o TextRunPositions(ps, k + 1)

\* C6: two non-empty text calls separated by block-level markup (opening or
\* closing p, li, ul, ol, or br; any letter case; with or without attributes)
\* are at least one space apart in the result of normalizeAbstract.
C6_BlockMarkupSeparates ==
  (fn = "normalizeAbstract" /\ \A k \in 1..Len(pieces) : pieces[k] \in BlockChunks) =>
    LET runs == TextRunPositions(pieces, 1)
        out == NonSpacePositions(result, 1)
    IN  /\ Len(out) = Len(runs)
        /\ \A n \in 1..(Len(runs) - 1) :
             (\E m \in (runs[n] + 1)..(runs[n + 1] - 1) : pieces[m] \in BlockTags)
               => out[n + 1] > out[n] + 1

\* C7 as stated: the result of normalizeTitle holds no control character at
\* all, no leading or trailing space and no two consecutive spaces.
C7_NoControlCharacter ==
  fn = "normalizeTitle" =>
    /\ \A k \in 1..Len(result) : ~IsControl(result[k])
    /\ result # <<>> => result[1] # " " /\ result[Len(result)] # " "
    /\ \A k \in 1..(Len(result) - 1) : ~(result[k] = " " /\ result[k + 1] = " ")

\* C7 amended: the result of normalizeTitle holds no tab, carriage return or
\* line feed, no leading or trailing space and no two consecutive spaces
\* (a control code that is not whitespace is kept).
C7_NoWhitespaceControl ==
  fn = "normalizeTitle" =>
    /\ \A k \in 1..Len(result) : result[k] \notin {"\t", "\r", "\n"}
    /\ result # <<>> => result[1] # " " /\ result[Len(result)] # " "
    /\ \A k \in 1..(Len(result) - 1) : ~(result[k] = " " /\ result[k + 1] = " ")

\* a title with a line break or tab inside and whitespace at an end
C7_Witness ==
  /\ fn = "normalizeTitle"
  /\ Len(arg) >= 3
  /\ arg[1] = "b" /\ arg[2] \in {"\t", "\r", "\n"}
  /\ IsWhitespace(arg[Len(arg)])
  /\ result = <<"b">>

\* the text a well-formed chunk renders as: a tag nothing, a character
\* reference the character it names, a text character itself
RenderedText(chunk) ==
  CASE chunk = <<"&", "l", "t", ";">> -> <<"<">>
    [] chunk = <<"&", "g", "t", ";">> -> <<">">>
    [] chunk = <<"&", "a", "m", "p", ";">> -> <<"&">>
    [] Len(chunk) = 1 -> chunk
    [] OTHER -> <<>>

IsWellFormedChunk(chunk) == chunk # <<"<">>

RECURSIVE RenderedTextOf(_)
RenderedTextOf(ps) ==
  IF ps = <<>> THEN <<>> ELSE RenderedText(Head(ps)) \o RenderedTextOf(Tail(ps))

\* the maximal stretches of s without whitespace, in order
RECURSIVE Words(_, _)
Words(s, cur) ==
  IF s = <<>> THEN (IF cur = <<>> THEN <<>> ELSE <<cur>>)
  ELSE IF IsWhitespace(Head(s))
       THEN (IF cur = <<>> THEN <<>> ELSE <<cur>>) \o Words(Tail(s), <<>>)
       ELSE Words(Tail(s), Append(cur, Head(s)))

\* C8: normalizeTitle returns the rendered text of the input (tags dropped,
\* the text between them kept, character references decoded) with every run
\* of line breaks and whitespace replaced by one space and the ends trimmed.
C8_TitleIsRenderedText ==
  (fn = "normalizeTitle" /\ \A k \in 1..Len(pieces) : IsWellFormedChunk(pieces[k])) =>
    result = join(Words(RenderedTextOf(pieces), <<>>), <<" ">>)

\* text inside a tag pair, followed by a character reference
C8_Witness ==
  /\ fn = "normalizeTitle"
  /\ pieces = << <<"<", "b", ">">>, <<"b">>, <<"&", "l", "t", ";">> >>
  /\ result = <<"b", "<">>

(***************************************************************************)
(* Claims about the blur handlers                                          *)
(***************************************************************************)
IsWrite(entry) == entry.op \in {"value", "setContent", "change"}

\* C2: a blur that follows an earlier blur of the same field with no user
\* edit in between writes no value and dispatches no change notification.
C2_RepeatedBlurWritesNothing ==
  cleanBlurs = 2 => \A k \in 1..Len(log) : ~IsWrite(log[k])

\* whether content is what the handler would write for it
AlreadyNormalized(by, content) ==
  CASE by = "title" -> normalizeTitle(content) = content
    [] by = "abstract" -> normalizeAbstract(content) = content
    [] by = "legacy" -> join(normalizeKeywords(content), <<",", " ">>) = content

\* C3: a handler that finds the field's content empty or equal to its
\* normalized form writes neither the value nor the editor content and
\* dispatches no change notification.
C3_NormalizedContentUntouched ==
  \A k \in 1..Len(log) :
    (log[k].op = "read"
       /\ (log[k].content = <<>> \/ AlreadyNormalized(log[k].by, log[k].content)))
    => /\ \A m \in 1..Len(log) : log[m].by = log[k].by => ~IsWrite(log[m])
       /\ Len(log) = 1 => getElementContent(Field) = log[k].content

\* a blur on a title field that holds an already normalized title
C3_Witness ==
  /\ cleanBlurs = 1
  /\ log = << [op |-> "read", by |-> "title", content |-> <<"b", " ", "b">>] >>
  /\ value = <<"b", " ", "b">>

(***************************************************************************)
(* The tag-input bridge.  t = [value, timers, now, commits, replays, calls] *)
(* is the text input with the timer queue.                                 *)
(***************************************************************************)
\* the delay between two commits of a replay, in milliseconds
STAGGER == 50

MaxTagLen == 3
MaxReplays == 1
MaxTicks == 1

TagChunks == { <<"a">>, <<"b">>, <<",">>, <<";">> }

\* keywords.forEach((keyword, index) => setTimeout(..., index * 50)); index
\* counts from 1 here, and replay numbers the forEach the timer belongs to
RECURSIVE ScheduleFrom(_, _, _, _, _)
ScheduleFrom(queue, keywords, index, at, replay) ==
  IF index > Len(keywords) THEN queue
  ELSE ScheduleFrom(
         Append(queue, [due |-> at + (index - 1) * STAGGER,
                        keyword |-> keywords[index],
                        index |-> index,
                        last |-> index = Len(keywords),
                        replay |-> replay]),
         keywords, index + 1, at, replay)

Ran(t, raw, cleared, scheduled) ==
  [t EXCEPT !.calls = Append(@, [raw |-> raw, cleared |-> cleared,
                                scheduled |-> scheduled])]

\* processVueTagInput with keywords.length > 0 as the test
processVueTagInput_oneKeyword(t) ==
  LET rawValue == t.value
  IN  IF rawValue = <<>> THEN Ran(t, rawValue, FALSE, 0)
      ELSE LET keywords == normalizeKeywords(rawValue)
           IN  IF Len(keywords) > 0 /\ includes(rawValue, ",")
               THEN Ran([t EXCEPT !.value = <<>>,
                                  !.timers = ScheduleFrom(@, keywords, 1, t.now, t.replays + 1),
                                  !.replays = @ + 1],
                        rawValue, TRUE, Len(keywords))
               ELSE Ran(t, rawValue, FALSE, 0)

\* processVueTagInput without input.value = "" before the timers are set
processVueTagInput_noClear(t) ==
  LET rawValue == t.value
  IN  IF rawValue = <<>> THEN Ran(t, rawValue, FALSE, 0)
      ELSE LET keywords == normalizeKeywords(rawValue)
           IN  IF Len(keywords) > 1 /\ includes(rawValue, ",")
               THEN Ran([t EXCEPT !.timers = ScheduleFrom(@, keywords, 1, t.now, t.replays + 1),
                                  !.replays = @ + 1],
                        rawValue, FALSE, Len(keywords))
               ELSE Ran(t, rawValue, FALSE, 0)

\* the container always holds its text input when a listener calls
processVueTagInput(t) ==
  LET rawValue == t.value
  IN  IF rawValue = <<>> THEN Ran(t, rawValue, FALSE, 0)
      ELSE LET keywords == normalizeKeywords(rawValue)
           IN  IF Len(keywords) > 1 /\ includes(rawValue, ",")
               THEN Ran([t EXCEPT !.value = <<>>,
                                  !.timers = ScheduleFrom(@, keywords, 1, t.now, t.replays + 1),
                                  !.replays = @ + 1],
                        rawValue, TRUE, Len(keywords))
               ELSE Ran(t, rawValue, FALSE, 0)

\* a blur event calls every listener on the input, one after the other
RECURSIVE CallListeners(_, _)
CallListeners(t, n) ==
  IF n = 0 THEN t
  ELSE LET u == processVueTagInput(t) IN CallListeners(u, n - 1)

TagInput == [value |-> tagValue, timers |-> timers, now |-> now,
             commits |-> <<>>, replays |-> replays, calls |-> <<>>]

\* the callback with the Enter keydown dispatched before the keyword is
\* assigned
timerCallback_dispatchFirst(t, timer) ==
  LET dispatched == [t EXCEPT !.commits = Append(@, t.value)]
      assigned == [dispatched EXCEPT !.value = timer.keyword]
  IN  IF ~timer.last THEN [assigned EXCEPT !.value = <<>>] ELSE assigned

\* the callback of a replay timer: input.value = keyword, the Enter keydown,
\* and input.value = "" unless the keyword is the last
timerCallback(t, timer) ==
  LET assigned == [t EXCEPT !.value = timer.keyword]
      dispatched == [assigned EXCEPT !.commits = Append(@, assigned.value)]
  IN  IF ~timer.last THEN [dispatched EXCEPT !.value = <<>>] ELSE dispatched

\* the position in the queue of the timer that fires next: the earliest
\* due, and among those the one set first
NextTimer(queue) ==
  CHOOSE k \in 1..Len(queue) :
    /\ \A m \in 1..Len(queue) : queue[k].due <= queue[m].due
    /\ \A m \in 1..(k - 1) : queue[m].due > queue[k].due

Without(queue, k) == SubSeq(queue, 1, k - 1) \o SubSeq(queue, k + 1, Len(queue))

\* the observer callback sees the container added with its text input
MutationAddsContainer ==
  /\ ~inDom
  /\ inDom' = TRUE
  /\ listeners' = listeners + 1
  /\ calls' = <<>> /\ commits' = <<>>
  /\ UNCHANGED <<settled, tagValue, timers, now, replays, fresh,
                 pureVars, fieldVars, watcherVars, hookVars>>

\* the scan one second after attachVueHandlers
SettleScan ==
  /\ ~settled
  /\ settled' = TRUE
  /\ listeners' = IF inDom THEN listeners + 1 ELSE listeners
  /\ calls' = <<>> /\ commits' = <<>>
  /\ UNCHANGED <<inDom, tagValue, timers, now, replays, fresh,
                 pureVars, fieldVars, watcherVars, hookVars>>

\* the user types or pastes a chunk at the end of the input's text
TagUserType ==
  \E chunk \in TagChunks :
    /\ inDom
    /\ Len(tagValue) + Len(chunk) <= MaxTagLen
    /\ tagValue' = tagValue \o chunk
    /\ fresh' = TRUE
    /\ calls' = <<>> /\ commits' = <<>>
    /\ UNCHANGED <<inDom, settled, listeners, timers, now, replays,
                   pureVars, fieldVars, watcherVars, hookVars>>

\* the text input loses focus
TagInputBlur ==
  /\ inDom
  /\ listeners > 0
  /\ \E t \in {CallListeners(TagInput, listeners)} :
       /\ replays < MaxReplays \/ t.replays = replays
       /\ tagValue' = t.value
       /\ timers' = t.timers
       /\ replays' = t.replays
       /\ calls' = t.calls
       /\ fresh' = (fresh /\ t.replays = replays)
  /\ commits' = <<>>
  /\ UNCHANGED <<inDom, settled, listeners, now, pureVars, fieldVars, watcherVars, hookVars>>

\* the timer that is due first fires
TimerFires ==
  /\ timers # <<>>
  /\ LET k == NextTimer(timers)
     IN  /\ timers[k].due <= now
         /\ \E t \in {timerCallback(TagInput, timers[k])} :
              /\ tagValue' = t.value
              /\ commits' = t.commits
         /\ timers' = Without(timers, k)
  /\ calls' = <<>>
  /\ UNCHANGED <<inDom, settled, listeners, now, replays, fresh,
                 pureVars, fieldVars, watcherVars, hookVars>>

\* time passes, up to the horizon and for as long as a timer is pending; a
\* timer that is due fires before more time passes
Tick ==
  /\ now < MaxTicks * STAGGER \/ timers # <<>>
  /\ \A k \in 1..Len(timers) : timers[k].due > now
  /\ now' = now + STAGGER
  /\ calls' = <<>> /\ commits' = <<>>
  /\ UNCHANGED <<inDom, settled, listeners, tagValue, timers, replays, fresh,
                 pureVars, fieldVars, watcherVars, hookVars>>

InitTagInput ==
  /\ inDom \in BOOLEAN
  /\ settled = FALSE
  /\ listeners = 0
  /\ tagValue = <<>>
  /\ timers = <<>>
  /\ now = 0
  /\ commits = <<>>
  /\ replays = 0
  /\ calls = <<>>
  /\ fresh = FALSE
  /\ PureIdle
  /\ FieldsIdle
  /\ WatcherIdle
  /\ HookIdle

NextTagInput ==
  \/ MutationAddsContainer
  \/ SettleScan
  \/ TagUserType
  \/ TagInputBlur
  \/ TimerFires
  \/ Tick

SpecTagInput == InitTagInput /\ [][NextTagInput]_vars

\* texts with one, two and three keywords
PastedTexts ==
  { <<"a">>, <<"a", ",", "b">>, <<"a", ";", "b">>,
    <<"b", ",", "a", ",", "a", "b">>, <<"a", ",", "A", ",", "b">> }

\* the user replaces the input's text by a pasted one
TagUserPaste ==
  \E text \in PastedTexts :
    /\ inDom
    /\ tagValue' = text
    /\ fresh' = TRUE
    /\ calls' = <<>> /\ commits' = <<>>
    /\ UNCHANGED <<inDom, settled, listeners, timers, now, replays,
                   pureVars, fieldVars, watcherVars, hookVars>>

\* the container is in the document and the watcher is done: its text input
\* carries one listener, or two (one of a mutation batch, one of the scan)
InitReplay ==
  /\ inDom = TRUE
  /\ settled = TRUE
  /\ listeners \in {1, 2}
  /\ tagValue = <<>>
  /\ timers = <<>>
  /\ now = 0
  /\ commits = <<>>
  /\ replays = 0
  /\ calls = <<>>
  /\ fresh = FALSE
  /\ PureIdle
  /\ FieldsIdle
  /\ WatcherIdle
  /\ HookIdle

NextReplay == TagUserPaste \/ TagInputBlur \/ TimerFires \/ Tick

\* the timer clock advances, and the event loop runs a timer that is due
SpecReplayFair ==
  InitReplay /\ [][NextReplay]_vars /\ WF_vars(Tick) /\ WF_vars(TimerFires)

(***************************************************************************)
(* Claims about the tag-input bridge                                       *)
(***************************************************************************)
HasSeparator(s) == \E k \in 1..Len(s) : s[k] \in SEPARATORS

\* C9: a replay starts (the input is cleared, commits are scheduled) only if
\* normalizeKeywords of the input's text gave at least 2 keywords and the
\* text held a separator; a single bare keyword or an empty input clears
\* and schedules nothing.
C9_ReplayOnlyForSeveralKeywords ==
  \A k \in 1..Len(calls) :
    (calls[k].cleared \/ calls[k].scheduled > 0) =>
      /\ Len(normalizeKeywords(calls[k].raw)) >= 2
      /\ HasSeparator(calls[k].raw)

\* a blur on two keywords with a comma starts a replay
C9_Witness ==
  /\ Len(calls) >= 1
  /\ calls[1] = [raw |-> <<"a", ",", "b">>, cleared |-> TRUE, scheduled |-> 2]
  /\ tagValue = <<>>
  /\ Len(timers) = 2

\* C10: whenever the bridge calls on a text that yields more than one keyword
\* and holds any of the five separators, it clears the input and schedules
\* one commit per normalized keyword.
C10_ReplayForAnySeparator ==
  \A k \in 1..Len(calls) :
    (Len(normalizeKeywords(calls[k].raw)) > 1 /\ HasSeparator(calls[k].raw)) =>
      /\ calls[k].cleared
      /\ calls[k].scheduled = Len(normalizeKeywords(calls[k].raw))

(***************************************************************************)
(* The exported functions, called with any JavaScript value.  A value is   *)
(* [js, typeof, truthy] and, for a string, str.  A call either returns a   *)
(* value or throws.                                                        *)
(***************************************************************************)
StringValue(s) ==
  [js |-> "string", typeof |-> "string", truthy |-> (s # <<>>), str |-> s]

\* undefined, null, false, true, 0, 5, an object and an array
NonStrings ==
  { [js |-> "undefined", typeof |-> "undefined", truthy |-> FALSE],
    [js |-> "null", typeof |-> "object", truthy |-> FALSE],
    [js |-> "false", typeof |-> "boolean", truthy |-> FALSE],
    [js |-> "true", typeof |-> "boolean", truthy |-> TRUE],
    [js |-> "0", typeof |-> "number", truthy |-> FALSE],
    [js |-> "5", typeof |-> "number", truthy |-> TRUE],
    [js |-> "{}", typeof |-> "object", truthy |-> TRUE],
    [js |-> "[]", typeof |-> "object", truthy |-> TRUE] }

Returned(v) == [threw |-> FALSE, value |-> v]

\* input.replace(...) on a value that is not a string: undefined and null
\* have no properties, the other values have no replace method
TypeError == [threw |-> TRUE, value |-> "TypeError"]

TitleAbstract_normalizeTitle(input) ==
  IF ~input.truthy \/ input.typeof # "string" THEN Returned(<<>>)
  ELSE Returned(normalizeTitle(input.str))

TitleAbstract_normalizeAbstract(input) ==
  IF ~input.truthy \/ input.typeof # "string" THEN Returned(<<>>)
  ELSE Returned(normalizeAbstract(input.str))

\* normalizeKeywords with the guard !input alone
OJSKeywordsNormalizer_normalize_noTypeCheck(input) ==
  IF ~input.truthy THEN Returned(<<>>)
  ELSE IF input.typeof # "string" THEN TypeError
       ELSE Returned(normalizeKeywords(input.str))

OJSKeywordsNormalizer_normalize(input) ==
  IF ~input.truthy \/ input.typeof # "string" THEN Returned(<<>>)
  ELSE IF input.typeof # "string" THEN TypeError
       ELSE Returned(normalizeKeywords(input.str))

ExportedNormalizeTitle ==
  /\ fn = "none"
  /\ fn' = "normalizeTitle"
  /\ result' = TitleAbstract_normalizeTitle(arg)
  /\ UNCHANGED <<pieces, arg, fieldVars, tagVars, watcherVars, hookVars>>

ExportedNormalizeAbstract ==
  /\ fn = "none"
  /\ fn' = "normalizeAbstract"
  /\ result' = TitleAbstract_normalizeAbstract(arg)
  /\ UNCHANGED <<pieces, arg, fieldVars, tagVars, watcherVars, hookVars>>

ExportedNormalizeKeywords ==
  /\ fn = "none"
  /\ fn' = "normalizeKeywords"
  /\ result' = OJSKeywordsNormalizer_normalize(arg)
  /\ UNCHANGED <<pieces, arg, fieldVars, tagVars, watcherVars, hookVars>>

InitValues ==
  /\ \/ /\ pieces \in SeqsUpTo(MarkupChunks, MaxPieces)
        /\ arg = StringValue(Flatten(pieces))
     \/ /\ pieces = <<>>
        /\ arg \in NonStrings
  /\ fn = "none"
  /\ result = Returned(<<>>)
  /\ FieldsIdle
  /\ TagIdle
  /\ WatcherIdle
  /\ HookIdle

NextValues ==
  ExportedNormalizeTitle \/ ExportedNormalizeAbstract \/ ExportedNormalizeKeywords

SpecValues == InitValues /\ [][NextValues]_vars

IsAbsentOrEmpty(v) == v.typeof # "string" \/ v.str = <<>>

\* C11: the three normalizers throw for no input; they return the empty
\* string (the empty list for normalizeKeywords) for every input that is
\* absent, empty or not a string; and for markup whose tags are unbalanced or
\* never closed, normalizeTitle and normalizeAbstract still return the text
\* between the tags.
C11_NoThrowAndEmptyForNonStrings ==
  fn # "none" =>
    /\ ~result.threw
    /\ IsAbsentOrEmpty(arg) => result.value = <<>>
    /\ ( /\ fn \in {"normalizeTitle", "normalizeAbstract"}
         /\ ~IsAbsentOrEmpty(arg)
         /\ \A k \in 1..Len(pieces) : IsWellFormedChunk(pieces[k]) ) =>
         result.value = join(Words(RenderedTextOf(pieces), <<>>), <<" ">>)

\* a number, and an element that is opened and never closed
C11_Witness ==
  \/ /\ fn = "normalizeKeywords"
     /\ arg.js = "5"
     /\ result = Returned(<<>>)
  \/ /\ fn = "normalizeAbstract"
     /\ pieces = << <<"<", "b", ">">>, <<"b">> >>
     /\ result = Returned(<<"b">>)

(***************************************************************************)
(* Claims about the blur listeners on document                             *)
(***************************************************************************)
\* C12: whatever the target of a blur event that reaches the document
\* listeners, no listener throws; a target without selector matching, such
\* as the document, is a non-match: nothing is read, written or dispatched.
C12_NoListenerThrows ==
  /\ \A k \in 1..Len(log) : log[k].op # "throw"
  /\ (~HasMatches(el) /\ cleanBlurs > 0) => log = <<>>

\* the normalized form a handler gives the content it read
NormalizedBy(handler, content) ==
  CASE handler = "title" -> normalizeTitle(content)
    [] handler = "abstract" -> normalizeAbstract(content)
    [] handler = "legacy" -> join(normalizeKeywords(content), <<",", " ">>)

\* the read at position k found non-empty content that its normalized form
\* differs from
NeedsWrite(k) ==
  /\ log[k].op = "read"
  /\ log[k].content # <<>>
  /\ NormalizedBy(log[k].by, log[k].content) # log[k].content

\* the read at position k is followed by a write of the normalized form
\* through the given channel and then by the change event
WriteThenChange(k, channel) ==
  /\ k + 2 <= Len(log)
  /\ log[k + 1] = [op |-> channel, by |-> log[k].by,
                   content |-> NormalizedBy(log[k].by, log[k].content)]
  /\ log[k + 2] = [op |-> "change", by |-> log[k].by,
                   content |-> NormalizedBy(log[k].by, log[k].content)]

\* C13 as stated: every handler, the legacy keywords handler included,
\* writes the normalized form through the editor when one is active and to
\* the raw value otherwise, and then dispatches the change event.
C13_WriteThroughActiveChannel ==
  \A k \in 1..Len(log) :
    NeedsWrite(k) =>
      WriteThenChange(k, IF isTinyMCEActive(Field) THEN "setContent" ELSE "value")

\* C13 amended: the title and abstract handlers write through the editor
\* when one is active and to the raw value otherwise; the legacy keywords
\* handler reads and writes the raw value whether or not an editor is active;
\* each write is followed by the change event.
C13_WriteThenChange ==
  \A k \in 1..Len(log) :
    NeedsWrite(k) =>
      WriteThenChange(k, IF log[k].by # "legacy" /\ isTinyMCEActive(Field)
                         THEN "setContent" ELSE "value")

\* an abstract with a paragraph tag, written back through its editor
C13_Witness ==
  /\ isTinyMCEActive(Field)
  /\ Len(log) = 3
  /\ log[1] = [op |-> "read", by |-> "abstract", content |-> <<"<", "p", ">", "b">>]
  /\ log[2] = [op |-> "setContent", by |-> "abstract", content |-> <<"b">>]
  /\ log[3] = [op |-> "change", by |-> "abstract", content |-> <<"b">>]
  /\ editor = <<"b">>

(***************************************************************************)
(* Claims about the replay timers                                          *)
(***************************************************************************)
\* the positions in the queue of the pending timers of replay r
PendingOf(r) == {k \in 1..Len(timers) : timers[k].replay = r}

\* the timers a step appended to the queue
Appended == SubSeq(timers', Len(timers) + 1, Len(timers'))

\* a call of the step started a replay: one timer per normalized keyword is
\* appended, in the order of the keywords
SchedulesInOrder ==
  \A c \in 1..Len(calls') :
    calls'[c].cleared =>
      LET keywords == normalizeKeywords(calls'[c].raw)
      IN  /\ Len(Appended) = Len(keywords)
          /\ \A i \in 1..Len(keywords) :
               /\ Appended[i].keyword = keywords[i]
               /\ Appended[i].index = i
               /\ Appended[i].last = (i = Len(keywords))

\* a step that dispatches a commit runs one timer: the earliest pending one
\* of its replay, with the input holding that timer's keyword at the commit
CommitsInOrder ==
  commits' # <<>> =>
    \E k \in 1..Len(timers) :
      /\ timers' = Without(timers, k)
      /\ commits' = <<timers[k].keyword>>
      /\ \A m \in PendingOf(timers[k].replay) : timers[m].index >= timers[k].index

\* a timer leaves the queue only by running, one at a time
LeavesByRunning ==
  Len(timers') < Len(timers) => (commits' # <<>> /\ Len(timers') = Len(timers) - 1)

HandlesTagBlur == calls' # <<>>

\* C15: when a blur on the embedded input of a tag-input widget starts being
\* processed, no value write caused by an earlier blur on it is still
\* pending: the timer queue holds no replay callback.
C15_NoWritePendingAtNextBlur == [][HandlesTagBlur => timers = <<>>]_vars

\* the step writes the embedded input's value from the normalizer's code: a
\* processVueTagInput call clears it, or a timer callback assigns a keyword
NormalizerWritesTagValue ==
  \/ \E c \in 1..Len(calls') : calls'[c].cleared
  \/ commits' # <<>>

\* the replays that still have a write to the embedded input pending
WritingReplays == {timers[k].replay : k \in 1..Len(timers)}

\* C16: the normalizer writes the embedded input's value only in a step that
\* handles a blur event on it, and at no time do two normalizer activities
\* (two replays) have writes to it under way.
C16_WritesOnlyWhileHandlingBlur ==
  [][ /\ NormalizerWritesTagValue => HandlesTagBlur
      /\ Cardinality(WritingReplays') <= 1 ]_vars

(***************************************************************************)
(* The dynamic DOM watcher (attachVueHandlers).  The watched part of the   *)
(* document is                                                             *)
(*   modal > outer > ( inner > innerInput , second > secondInput )         *)
(*   lone > loneInput                                                      *)
(* where modal is a plain div, outer has class pkpFormField--options,      *)
(* inner, second and lone have class pkpTagInput, and the inputs are       *)
(* input[type="text"].                                                     *)
(***************************************************************************)
Nodes ==
  {"modal", "outer", "inner", "innerInput", "second", "secondInput",
   "lone", "loneInput"}

Parent ==
  [n \in Nodes |->
     CASE n \in {"modal", "lone"} -> "body"
       [] n = "outer" -> "modal"
       [] n \in {"inner", "second"} -> "outer"
       [] n = "innerInput" -> "inner"
       [] n = "secondInput" -> "second"
       [] n = "loneInput" -> "lone"]

\* the nodes in document order
DocumentOrder ==
  <<"modal", "outer", "inner", "innerInput", "second", "secondInput",
    "lone", "loneInput">>

Position(n) == CHOOSE k \in 1..Len(DocumentOrder) : DocumentOrder[k] = n

RECURSIVE IsDescendant(_, _)
IsDescendant(n, ancestor) ==
  /\ Parent[n] # "body"
  /\ (Parent[n] = ancestor \/ IsDescendant(Parent[n], ancestor))

Descendants(n) == {m \in Nodes : IsDescendant(m, n)}

\* node.matches(CONFIG.SELECTORS.vueTagContainer)
MatchesVueTagContainer(n) == n \in {"outer", "inner", "second", "lone"}

TextInputs == {"innerInput", "secondInput", "loneInput"}

NoInput == "null"

\* container.querySelector('input[type="text"]'): the first text input in
\* document order among the inserted descendants
QueryTextInput(container, present) ==
  LET found == Descendants(container) \cap TextInputs \cap present
  IN  IF found = {} THEN NoInput
      ELSE CHOOSE i \in found : \A j \in found : Position(i) <= Position(j)

\* containers.forEach: one more blur listener on the text input of each
\* container that has one
AttachAll(containers, present) ==
  [i \in TextInputs |->
     attached[i] + Cardinality({c \in containers : QueryTextInput(c, present) = i})]

\* the sets of nodes that can be in the document: with a node, its parent
Closed(S) == \A n \in S : Parent[n] = "body" \/ Parent[n] \in S

\* a mutation batch with one added node: node is inserted with the
\* descendants it already has, and the observer callback handles it
MutationBatch ==
  \E node \in Nodes \ dom :
    \E subtree \in SUBSET Descendants(node) :
      /\ Parent[node] = "body" \/ Parent[node] \in dom
      /\ subtree \cap dom = {}
      /\ Closed(dom \cup {node} \cup subtree)
      /\ dom' = dom \cup {node} \cup subtree
      /\ LET containers ==
               IF MatchesVueTagContainer(node) THEN {node}
               ELSE {c \in Descendants(node) \cap dom' : MatchesVueTagContainer(c)}
         IN  attached' = AttachAll(containers, dom')
      /\ UNCHANGED <<scanned, pureVars, fieldVars, tagVars, hookVars>>

\* the scan one second after attachVueHandlers, over the whole document
SettleDelayScan ==
  /\ ~scanned
  /\ scanned' = TRUE
  /\ attached' = AttachAll({c \in dom : MatchesVueTagContainer(c)}, dom)
  /\ UNCHANGED <<dom, pureVars, fieldVars, tagVars, hookVars>>

InitWatcher ==
  /\ dom \in {S \in SUBSET Nodes : Closed(S)}
  /\ attached = [i \in TextInputs |-> 0]
  /\ scanned = FALSE
  /\ PureIdle
  /\ FieldsIdle
  /\ TagIdle
  /\ HookIdle

NextWatcher == MutationBatch \/ SettleDelayScan

SpecWatcher == InitWatcher /\ [][NextWatcher]_vars

\* C17: the text input of a tag-input container never carries more than one
\* blur listener of the watcher, whatever mutation batches and settle scan
\* have run.
C17_AtMostOneListener == \A i \in TextInputs : attached[i] <= 1

\* the containers a step inserted
Inserted == {c \in dom' \ dom : MatchesVueTagContainer(c)}

\* C18: after a mutation batch, every tag-input container that is the added
\* node or one of its descendants, and has a text input, has got a blur
\* listener on that input in the batch; containers nested in an added node
\* that matches the pattern itself are included.
C18_EveryAddedContainerGetsListener ==
  [][ \A c \in Inserted :
        QueryTextInput(c, dom') # NoInput =>
          attached'[QueryTextInput(c, dom')] > attached[QueryTextInput(c, dom')]
    ]_vars

\* C19: once the settle scan has run, every inserted tag-input container
\* whose text input is inserted has a blur listener on that input, whatever
\* the order in which container and input were inserted.  (From such a state
\* on, no later step attaches a listener to that input: its ancestors are
\* all inserted already.)
C19_EveryContainerGetsListener ==
  scanned =>
    \A c \in dom :
      (MatchesVueTagContainer(c) /\ QueryTextInput(c, dom) # NoInput) =>
        attached[QueryTextInput(c, dom)] >= 1

(***************************************************************************)
(* Claims about the field accessors                                        *)
(***************************************************************************)
\* the rich-text runtime is present, the field has a non-empty id and the
\* runtime holds an editor for that id
EditorIsActive == tinymce /\ el.id # <<>> /\ editor # NoEditor

\* the entries the title and abstract handlers, which go through
\* getElementContent and setElementContent, logged in the step
AccessorEntries == {k \in 1..Len(log') : log'[k].by \in {"title", "abstract"}}

\* the legacy handler assigned the raw value later in the same step
LegacyWroteValue ==
  \E k \in 1..Len(log') : log'[k].by = "legacy" /\ log'[k].op = "value"

\* C20: content is read from and written to the editor exactly when the
\* runtime is present, the field has a non-empty id and the runtime holds an
\* editor for it, and then the write leaves the element's raw value as it
\* was; otherwise content is read from and written to the raw value and the
\* editor is not touched.
C20_EditorExactlyWhenActive ==
  [][ \A k \in AccessorEntries :
        /\ log'[k].op = "read" =>
             log'[k].content = IF EditorIsActive THEN editor ELSE value
        /\ log'[k].op = "setContent" =>
             /\ EditorIsActive
             /\ editor' = log'[k].content
             /\ ~LegacyWroteValue => value' = value
        /\ log'[k].op = "value" =>
             /\ ~EditorIsActive
             /\ editor' = editor
             /\ ~LegacyWroteValue => value' = log'[k].content
    ]_vars

\* a blur has written an abstract back through its editor, and the
\* textarea's raw value still is what it was when the editor was added
C20_Witness ==
  /\ EditorIsActive
  /\ \E k \in 1..Len(log) : log[k].op = "setContent" /\ editor = log[k].content
  /\ editor = <<"b">>
  /\ value = <<>>

(***************************************************************************)
(* Claims about the field kinds and the keyword list                       *)
(***************************************************************************)
\* the handlers that read non-empty content of the field in the latest
\* event, and so ran their normalization on it
HandlersRun ==
  {log[k].by : k \in {j \in 1..Len(log) : log[j].op = "read" /\ log[j].content # <<>>}}

\* C21: during the handling of one blur event at most one of the title,
\* abstract and legacy keywords normalizations runs on the field, whatever
\* its tag, id, name and classes.
C21_AtMostOneKind == Cardinality(HandlersRun) <= 1

\* C22: joining normalizeKeywords(x) with ", " and normalizing the joined
\* string gives normalizeKeywords(x) again.
C22_JoinedListIsFixedPoint ==
  fn = "normalizeKeywords" =>
    normalizeKeywords(join(result, <<",", " ">>)) = result

\* several keywords, from an input that is not the joined list
C22_Witness ==
  /\ fn = "normalizeKeywords"
  /\ Len(result) >= 2
  /\ arg # join(result, <<",", " ">>)
  /\ \E k \in 1..Len(arg) : arg[k] = " "

\* C23: every entry of the list normalizeKeywords returns is non-empty, has
\* no whitespace at either end and holds none of the five separator
\* characters.
C23_EntriesAreCleanKeywords ==
  fn = "normalizeKeywords" =>
    \A k \in 1..Len(result) :
      /\ result[k] # <<>>
      /\ ~IsWhitespace(result[k][1])
      /\ ~IsWhitespace(result[k][Len(result[k])])
      /\ \A j \in 1..Len(result[k]) : result[k][j] \notin SEPARATORS

\* an input with spaces around a keyword, an empty piece and two kinds of
\* separator
C23_Witness ==
  /\ fn = "normalizeKeywords"
  /\ arg = <<" ", "a", ";", ArabicComma, "b">>
  /\ result = << <<"a">>, <<"b">> >>

\* ---------------------------------------------------------------------
\* Replays do not cascade
\* ---------------------------------------------------------------------

\* a handler run that sets timers
StartsReplay(call) == call.scheduled > 0

\* what a handler run may see without starting a replay: nothing, or one
\* keyword without a comma
EmptyOrOneKeyword(raw) ==
  \/ raw = <<>>
  \/ Len(normalizeKeywords(raw)) = 1 /\ ~includes(raw, ",")

relevantTemplates ==
  <<
    <<"s", "u", "b", "m", "i", "s", "s", "i", "o", "n", "/", "f", "o", "r",
      "m">>,
    <<"w", "o", "r", "k", "f", "l", "o", "w">>,
    <<"a", "u", "t", "h", "o", "r", "D", "a", "s", "h", "b", "o", "a", "r",
      "d">>,
    <<"c", "o", "n", "t", "r", "o", "l", "l", "e", "r", "s", "/", "m", "o",
      "d", "a", "l", "s", "/", "s", "u", "b", "m", "i", "s", "s", "i", "o",
      "n", "M", "e", "t", "a", "d", "a", "t", "a">>,
    <<"f", "r", "o", "n", "t", "e", "n", "d", "/", "p", "a", "g", "e", "s",
      "/", "s", "u", "b", "m", "i", "s", "s", "i", "o", "n">>,
    <<"c", "o", "n", "t", "r", "o", "l", "l", "e", "r", "s", "/", "t", "a",
      "b", "/", "s", "e", "t", "t", "i", "n", "g", "s">>,
    <<"c", "o", "n", "t", "r", "o", "l", "l", "e", "r", "s", "/", "g", "r",
      "i", "d", "/", "s", "u", "b", "m", "i", "s", "s", "i", "o", "n", "s">>
  >>

\* str_contains: the needle occurs in the haystack at some offset
str_contains(haystack, needle) ==
  \E offset \in 0..(Len(haystack) - Len(needle)) :
    SubSeq(haystack, offset + 1, offset + Len(needle)) = needle

\* shouldInjectScripts with str_starts_with in place of str_contains
shouldInjectScripts_startsWith(tpl) ==
  \E k \in 1..Len(relevantTemplates) :
    /\ Len(relevantTemplates[k]) <= Len(tpl)
    /\ SubSeq(tpl, 1, Len(relevantTemplates[k])) = relevantTemplates[k]

\* the foreach returns true at the first pattern the template contains
shouldInjectScripts(tpl) ==
  \E k \in 1..Len(relevantTemplates) : str_contains(tpl, relevantTemplates[k])

\* one addJavaScript call
addJavaScript(name, file) == [name |-> name, file |-> file, contexts |-> "frontend"]

\* the addJavaScript calls handleTemplateDisplay makes for a template
handleTemplateDisplay(tpl) ==
  IF ~shouldInjectScripts(tpl) THEN <<>>
  ELSE <<addJavaScript("metadataNormalizer-shared", "js/shared.js"),
         addJavaScript("metadataNormalizer-keywords", "js/keywordsNormalizer.js"),
         addJavaScript("metadataNormalizer-fields", "js/metadataNormalizer.js")>>

\* the pieces template identifiers are put together from
MaxTemplatePieces == 2

TemplatePieces ==
  {relevantTemplates[k] : k \in 1..Len(relevantTemplates)} \cup
  {
    <<"/">>,
    <<"x">>,
    <<"s">>,
    <<".", "t", "p", "l">>,
    <<"w", "o", "r", "k">>,
    <<"f", "l", "o", "w">>,
    <<"W", "o", "r", "k", "f", "l", "o", "w">>,
    <<"s", "u", "b", "m", "i", "s", "s", "i", "o", "n">>,
    <<"/", "f", "o", "r", "m">>,
    <<"f", "o", "r", "m">>,
    <<"c", "o", "n", "t", "r", "o", "l", "l", "e", "r", "s", "/">>,
    <<"t", "a", "b", "/", "s", "e", "t", "t", "i", "n", "g", "s">>,
    <<"d", "a", "s", "h", "b", "o", "a", "r", "d">>,
    <<"a", "u", "t", "h", "o", "r", "D", "a", "s", "h">>,
    <<"b", "o", "a", "r", "d">>
  }

RECURSIVE Concat(_)
Concat(parts) == IF parts = <<>> THEN <<>> ELSE Head(parts) \o Concat(Tail(parts))

Templates ==
  {Concat(parts) : parts \in UNION {[1..n -> TemplatePieces] : n \in 0..MaxTemplatePieces}}

\* the plugin loader calls register once per request; the hook is added for
\* a plugin that registered with success and is enabled
register ==
  /\ ~registered
  /\ \E success \in BOOLEAN, enabled \in BOOLEAN :
       hooks' = IF success /\ enabled THEN {"TemplateManager::display"} ELSE {}
  /\ registered' = TRUE
  /\ UNCHANGED <<displayed, template, scripts, pureVars, fieldVars, tagVars, watcherVars>>

\* the template manager displays the page's template, once per page load,
\* and calls the callbacks of the hook TemplateManager::display with it
TemplateManagerDisplay ==
  /\ registered
  /\ ~displayed
  /\ \E tpl \in Templates :
       /\ template' = tpl
       /\ scripts' = IF "TemplateManager::display" \in hooks
                        THEN handleTemplateDisplay(tpl)
                        ELSE <<>>
  /\ displayed' = TRUE
  /\ UNCHANGED <<registered, hooks, pureVars, fieldVars, tagVars, watcherVars>>

InitTemplate ==
  /\ registered = FALSE
  /\ hooks = {}
  /\ displayed = FALSE
  /\ template = <<>>
  /\ scripts = <<>>
  /\ PureIdle
  /\ FieldsIdle
  /\ TagIdle
  /\ WatcherIdle

NextTemplate == register \/ TemplateManagerDisplay

SpecTemplate == InitTemplate /\ [][NextTemplate]_vars

\* the callback ran for the latest displayed template
CallbackRan == displayed /\ "TemplateManager::display" \in hooks

\* the entry occurs in the identifier between some prefix and some suffix
ContainsEntry(tpl, entry) ==
  \E from \in 1..(Len(tpl) + 1), to \in 0..Len(tpl) :
    /\ to - from + 1 = Len(entry)
    /\ \A k \in 1..Len(entry) : tpl[from + k - 1] = entry[k]

NormalizerScripts ==
  {"metadataNormalizer-shared", "metadataNormalizer-keywords", "metadataNormalizer-fields"}

\* C25: when the hook callback runs for a displayed template it registers
\* the three normalizer scripts if the template identifier contains at
\* least one entry of relevantTemplates as a substring, and registers no
\* script for every other identifier.
C25_ScriptsIffTemplateContainsEntry ==
  CallbackRan =>
    IF \E k \in 1..Len(relevantTemplates) : ContainsEntry(template, relevantTemplates[k])
    THEN {scripts[k].name : k \in 1..Len(scripts)} = NormalizerScripts
    ELSE scripts = <<>>

\* an identifier that holds an entry after a prefix, and got the scripts
C25_Witness ==
  /\ CallbackRan
  /\ template = <<"x">> \o relevantTemplates[2]
  /\ Len(scripts) = 3

====
